---- MODULE Spec2Model ----
(***************************************************************************)
(* The Intcode virtual machine of 2019/intcode/src/program.rs:             *)
(* struct Program, its memory (mem + aux_mem), the mode resolver           *)
(* (get_param, get_relative_position), one handler per opcode, and the     *)
(* driving loop run().                                                     *)
(*                                                                         *)
(* A cell is an i64.  TLC's integers are 32 bits wide, so a cell is kept   *)
(* as its 8 bytes, least significant first, in two's complement.  The cast *)
(* `as usize` keeps the bytes and reads them as unsigned, exactly as the   *)
(* machine does.                                                           *)
(***************************************************************************)
EXTENDS Integers, Sequences, FiniteSets, TLC

\* -------------------------------------------------------------------------
\* Bounds of the model.
\* -------------------------------------------------------------------------
\* run() is followed for at most this many instructions: MaxSteps for the
\* end-to-end scenarios, MaxShort for the generated images.
MaxSteps == 90
MaxShort == 5
\* Literal operands of the generated one-instruction programs: -1 .. MaxLit.
MaxLit == 1

\* -------------------------------------------------------------------------
\* i64 and usize: 8 bytes of 8 bits.
\* -------------------------------------------------------------------------
Bytes == 8
Radix == 256

RECURSIVE NatBytes(_, _)
\* The n low bytes of the natural number m.
NatBytes(m, n) ==
    IF n = 0 THEN <<>> ELSE <<m % Radix>> \o NatBytes(m \div Radix, n - 1)

Complement(x) == [i \in 1..Len(x) |-> (Radix - 1) - x[i]]

\* The i64 of a small integer literal.
I(n) == IF n >= 0 THEN NatBytes(n, Bytes) ELSE Complement(NatBytes(-(n + 1), Bytes))

Zero == I(0)

IsNeg(x) == x[Len(x)] >= Radix \div 2

RECURSIVE AddBytes(_, _, _)
\* Byte-wise sum of two equally long byte strings, the carry out dropped.
AddBytes(a, b, carry) ==
    IF a = <<>> THEN <<>>
    ELSE LET s == Head(a) + Head(b) + carry
         IN  <<s % Radix>> \o AddBytes(Tail(a), Tail(b), s \div Radix)

SignExtend(x, n) ==
    x \o [i \in 1..(n - Len(x)) |-> IF IsNeg(x) THEN Radix - 1 ELSE 0]

ZeroExtend(x, n) == x \o [i \in 1..(n - Len(x)) |-> 0]

RECURSIVE ColSum(_, _, _, _)
ColSum(a, b, k, i) ==
    IF i > k THEN 0 ELSE a[i] * b[k + 1 - i] + ColSum(a, b, k, i + 1)

RECURSIVE MulCols(_, _, _, _, _)
\* The n low bytes of the product of two n-byte strings (schoolbook columns).
MulCols(a, b, k, n, carry) ==
    IF k > n THEN <<>>
    ELSE LET s == carry + ColSum(a, b, k, 1)
         IN  <<s % Radix>> \o MulCols(a, b, k + 1, n, s \div Radix)

RECURSIVE ULtFrom(_, _, _)
ULtFrom(a, b, i) ==
    IF i = 0 THEN FALSE
    ELSE IF a[i] # b[i] THEN a[i] < b[i]
    ELSE ULtFrom(a, b, i - 1)

\* a < b on usize.
ULt(a, b) == ULtFrom(a, b, Bytes)

\* a < b on i64.
SLt(a, b) == IF IsNeg(a) # IsNeg(b) THEN IsNeg(a) ELSE ULt(a, b)

RECURSIVE ToNatFrom(_, _)
ToNatFrom(x, i) == IF i > Len(x) THEN 0 ELSE x[i] + Radix * ToNatFrom(x, i + 1)

\* The index a usize below mem.len() stands for (mem.len() is small).
ToNat(x) == ToNatFrom(SubSeq(x, 1, 3), 1)

RECURSIVE URemFrom(_, _, _, _)
URemFrom(x, d, i, r) ==
    IF i = 0 THEN r ELSE URemFrom(x, d, i - 1, (r * Radix + x[i]) % d)

\* x % d for a non-negative i64 x and a small divisor d.
URem(x, d) == URemFrom(x, d, Len(x), 0)

RECURSIVE DecFrom(_, _)
DecFrom(groups, acc) ==
    IF groups = <<>> THEN acc
    ELSE DecFrom(Tail(groups),
                 AddBytes(MulCols(acc, I(1000000000), 1, Bytes, 0),
                          I(Head(groups)), 0))

\* The i64 of a decimal literal too large for a TLC integer, written as its
\* digits in groups of nine, most significant group first:
\* Dec(<<1, 5>>) is 1000000005.
Dec(groups) == DecFrom(groups, Zero)

\* -------------------------------------------------------------------------
\* State.
\* -------------------------------------------------------------------------
VARIABLES
    mem,              \* Program.mem: the primary region
    aux_mem,          \* Program.aux_mem: address -> cell, beyond mem
    pointer,          \* Program.pointer (usize)
    input,            \* Program.input: the values the receiver still holds
    output,           \* Program.output: the values the sender was given
    rel_base,         \* Program.rel_base (i64)
    stdin,            \* the lines the terminal will still deliver
    overflow_checks,  \* the build: TRUE when overflow of + and * panics
    status,           \* "running", "halted" (run returned), "panic"
    fatal,            \* the fatal condition of a panic, "" otherwise
    op,               \* run's local op: the opcode executed last
    steps,            \* instructions fetched so far
    budget,           \* instructions run() is followed for
    data,             \* the image given to new()
    given,            \* the receiver contents given to new()
    written,          \* history: address -> the value write() was last given
    keys              \* history: the commands debug() has read

vars == <<mem, aux_mem, pointer, input, output, rel_base, stdin,
          overflow_checks, status, fatal, op, steps, budget, data, given,
          written, keys>>

\* The machine as one value: what a handler reads and returns.
Self ==
    [mem |-> mem, aux_mem |-> aux_mem, pointer |-> pointer, input |-> input,
     output |-> output, rel_base |-> rel_base, stdin |-> stdin,
     fatal |-> "", wrote |-> written]

\* The outcome of an expression that may panic.
Ok(v) == [fatal |-> "", val |-> v]
Panic(kind) == [fatal |-> kind, val |-> Zero]
Abort(s, kind) == [s EXCEPT !.fatal = kind]

RECURSIVE FirstFatal(_)
\* The panic of the first of these outcomes, in evaluation order, that has one.
FirstFatal(outcomes) ==
    IF outcomes = <<>> THEN ""
    ELSE IF Head(outcomes).fatal # "" THEN Head(outcomes).fatal
    ELSE FirstFatal(Tail(outcomes))

\* a + b on i64: panics on overflow in a build with overflow checks, wraps
\* otherwise.
i64_add(a, b) ==
    LET w == AddBytes(a, b, 0)
        overflow == IsNeg(a) = IsNeg(b) /\ IsNeg(w) # IsNeg(a)
    IN  IF overflow /\ overflow_checks THEN Panic("overflow") ELSE Ok(w)

\* a * b computed in 32 bits and widened.
i64_mul_narrow(a, b) ==
    Ok(SignExtend(SubSeq(MulCols(a, b, 1, Bytes, 0), 1, Bytes \div 2), Bytes))

\* a * b on i64, likewise.
i64_mul(a, b) ==
    LET wide == MulCols(SignExtend(a, 2 * Bytes), SignExtend(b, 2 * Bytes),
                        1, 2 * Bytes, 0)
        w == SubSeq(wide, 1, Bytes)
        overflow == wide # SignExtend(w, 2 * Bytes)
    IN  IF overflow /\ overflow_checks THEN Panic("overflow") ELSE Ok(w)

\* p + k on usize, k a small constant.
usize_add(p, k) ==
    LET wide == AddBytes(ZeroExtend(p, Bytes + 1),
                         ZeroExtend(NatBytes(k, Bytes), Bytes + 1), 0)
        overflow == wide[Bytes + 1] # 0
    IN  IF overflow /\ overflow_checks THEN Panic("overflow")
        ELSE Ok(SubSeq(wide, 1, Bytes))

\* -------------------------------------------------------------------------
\* Memory.
\* -------------------------------------------------------------------------
InMem(s, p) == ULt(p, I(Len(s.mem)))

read(s, p) ==
    IF InMem(s, p) THEN s.mem[ToNat(p) + 1]
    ELSE IF p \in DOMAIN s.aux_mem THEN s.aux_mem[p] ELSE Zero

\* f with p mapped to val.
Put(f, p, val) == [q \in DOMAIN f \cup {p} |-> IF q = p THEN val ELSE f[q]]

\* write that always inserts into aux_mem.
write_aux_only(s, p, val) ==
    [s EXCEPT !.aux_mem = Put(@, p, val), !.wrote = Put(@, p, val)]

\* write that records every address in aux_mem as well.
write_through(s, p, val) ==
    IF InMem(s, p)
    THEN [s EXCEPT !.mem[ToNat(p) + 1] = val, !.aux_mem = Put(@, p, val),
                   !.wrote = Put(@, p, val)]
    ELSE [s EXCEPT !.aux_mem = Put(@, p, val), !.wrote = Put(@, p, val)]

write(s, p, val) ==
    IF InMem(s, p)
    THEN [s EXCEPT !.mem[ToNat(p) + 1] = val, !.wrote = Put(@, p, val)]
    ELSE [s EXCEPT !.aux_mem = Put(@, p, val), !.wrote = Put(@, p, val)]

\* -------------------------------------------------------------------------
\* Mode resolver.
\* -------------------------------------------------------------------------
\* get_relative_position taking Relative as relative to the pointer.
get_relative_position_pointer(s, offset_wrt_pointer, m) ==
    LET at == usize_add(s.pointer, offset_wrt_pointer)
        literal_num == read(s, at.val)
    IN  IF at.fatal # "" THEN at
        ELSE CASE m = "Inmediate" -> Panic("inmediate_write")
               [] m = "Position"  -> Ok(literal_num)
               [] m = "Relative"  -> i64_add(s.pointer, literal_num)

\* get_relative_position taking Inmediate as the parameter's own slot.
get_relative_position_slot(s, offset_wrt_pointer, m) ==
    LET at == usize_add(s.pointer, offset_wrt_pointer)
        literal_num == read(s, at.val)
    IN  IF at.fatal # "" THEN at
        ELSE CASE m = "Inmediate" -> at
               [] m = "Position"  -> Ok(literal_num)
               [] m = "Relative"  -> i64_add(s.rel_base, literal_num)

\* The address of a write target.
get_relative_position(s, offset_wrt_pointer, m) ==
    LET at == usize_add(s.pointer, offset_wrt_pointer)
        literal_num == read(s, at.val)
    IN  IF at.fatal # "" THEN at
        ELSE CASE m = "Inmediate" -> Panic("inmediate_write")
               [] m = "Position"  -> Ok(literal_num)
               [] m = "Relative"  -> i64_add(s.rel_base, literal_num)

\* get_param taking every operand as its literal.
get_param_literal(s, position, inmediate_mode) ==
    LET at == usize_add(s.pointer, position)
    IN  IF at.fatal # "" THEN at ELSE Ok(read(s, at.val))

\* The value of a read operand.
get_param(s, position, inmediate_mode) ==
    LET at == usize_add(s.pointer, position)
        literal_num == read(s, at.val)
        rel == i64_add(s.rel_base, literal_num)
    IN  IF at.fatal # "" THEN at
        ELSE CASE inmediate_mode = "Inmediate" -> Ok(literal_num)
               [] inmediate_mode = "Position"  -> Ok(read(s, literal_num))
               [] inmediate_mode = "Relative"  ->
                      IF rel.fatal # "" THEN rel ELSE Ok(read(s, rel.val))

\* -------------------------------------------------------------------------
\* Opcode handlers.  Each returns the machine after the handler, or the
\* machine as the panic left it (fatal set).
\* -------------------------------------------------------------------------
\* self.pointer += k
Advance(s, k) ==
    LET next == usize_add(s.pointer, k)
    IN  IF next.fatal # "" THEN Abort(s, next.fatal)
        ELSE [s EXCEPT !.pointer = next.val]

\* The shape shared by add, multiply, less_than and equals: resolve the
\* write target, then the two operands, compute, write, advance by 4.
Binary(s, p, x, y, val) ==
    LET failed == FirstFatal(<<p, x, y, val>>)
    IN  IF failed # "" THEN Abort(s, failed)
        ELSE Advance(write(s, p.val, val.val), 4)

add(s, m0, m1, m2) ==
    LET p == get_relative_position(s, 3, m2)
        x == get_param(s, 1, m0)
        y == get_param(s, 2, m1)
    IN  Binary(s, p, x, y, i64_add(x.val, y.val))

\* multiply as a copy of add whose operator was left unchanged.
multiply_adds(s, m0, m1, m2) == add(s, m0, m1, m2)

multiply(s, m0, m1, m2) ==
    LET p == get_relative_position(s, 3, m2)
        x == get_param(s, 1, m0)
        y == get_param(s, 2, m1)
    IN  Binary(s, p, x, y, i64_mul(x.val, y.val))

less_than(s, m0, m1, m2) ==
    LET p == get_relative_position(s, 3, m2)
        x == get_param(s, 1, m0)
        y == get_param(s, 2, m1)
    IN  Binary(s, p, x, y, Ok(IF SLt(x.val, y.val) THEN I(1) ELSE I(0)))

equals(s, m0, m1, m2) ==
    LET p == get_relative_position(s, 3, m2)
        x == get_param(s, 1, m0)
        y == get_param(s, 2, m1)
    IN  Binary(s, p, x, y, Ok(IF x.val = y.val THEN I(1) ELSE I(0)))

\* The shape shared by the two jumps: the target is resolved only when the
\* jump is taken.
Jump(s, cond, taken, m1) ==
    LET target == get_param(s, 2, m1)
    IN  IF cond.fatal # "" THEN Abort(s, cond.fatal)
        ELSE IF ~taken THEN Advance(s, 3)
        ELSE IF target.fatal # "" THEN Abort(s, target.fatal)
        ELSE [s EXCEPT !.pointer = target.val]

jump_if_true(s, m0, m1) ==
    LET cond == get_param(s, 1, m0)
    IN  Jump(s, cond, cond.val # Zero, m1)

\* jump_if_false as a copy of jump_if_true whose test was left unchanged.
jump_if_false_nonzero(s, m0, m1) == jump_if_true(s, m0, m1)

jump_if_false(s, m0, m1) ==
    LET cond == get_param(s, 1, m0)
    IN  Jump(s, cond, cond.val = Zero, m1)

\* set_rel_base assigning the operand instead of adding it.
set_rel_base_assigns(s, m0) ==
    LET delta == get_param(s, 1, m0)
    IN  IF delta.fatal # "" THEN Abort(s, delta.fatal)
        ELSE Advance([s EXCEPT !.rel_base = delta.val], 2)

\* set_rel_base adding the literal whatever the mode.
set_rel_base_literal(s, m0) ==
    LET delta == get_param(s, 1, "Inmediate")
        sum == i64_add(s.rel_base, delta.val)
        failed == FirstFatal(<<delta, sum>>)
    IN  IF failed # "" THEN Abort(s, failed)
        ELSE Advance([s EXCEPT !.rel_base = sum.val], 2)

set_rel_base(s, m0) ==
    LET at == usize_add(s.pointer, 1)
        literal_num == read(s, at.val)
        rel == i64_add(s.rel_base, literal_num)
        delta == CASE m0 = "Inmediate" -> Ok(literal_num)
                   [] m0 = "Position"  -> Ok(read(s, literal_num))
                   [] m0 = "Relative"  ->
                          IF rel.fatal # "" THEN rel ELSE Ok(read(s, rel.val))
        sum == i64_add(s.rel_base, delta.val)
        failed == FirstFatal(<<at, delta, sum>>)
    IN  IF failed # "" THEN Abort(s, failed)
        ELSE Advance([s EXCEPT !.rel_base = sum.val], 2)

\* A line of the terminal: the i64 it parses to, or a line that does not
\* parse.
Line(v) == [ok |-> TRUE, val |-> v]
BadLine == [ok |-> FALSE, val |-> Zero]

\* The input instruction has a value to take: the receiver holds one, or the
\* terminal will deliver a line that parses.  Otherwise it blocks.
InputReady(s) ==
    s.input # <<>> \/ \E i \in 1..Len(s.stdin) : s.stdin[i].ok

\* The tail of input() writing to the parameter's own slot.
Store_slot(s, n, m0) ==
    LET at == usize_add(s.pointer, 1)
    IN  IF at.fatal # "" THEN Abort(s, at.fatal)
        ELSE Advance(write(s, at.val, n), 2)

\* The tail of input(): the value n is known.
Store(s, n, m0) ==
    LET p == get_relative_position(s, 1, m0)
    IN  IF p.fatal # "" THEN Abort(s, p.fatal)
        ELSE Advance(write(s, p.val, n), 2)

\* input giving up on the first line that does not parse.
input_fn_unwrap(s, m0) ==
    IF s.input # <<>>
    THEN Store([s EXCEPT !.input = Tail(@)], Head(s.input), m0)
    ELSE IF Head(s.stdin).ok
         THEN Store([s EXCEPT !.stdin = Tail(@)], Head(s.stdin).val, m0)
         ELSE Abort([s EXCEPT !.stdin = Tail(@)], "parse_error")

RECURSIVE input_fn(_, _)
\* fn input: the receiver first, the terminal otherwise; a line that does
\* not parse calls input again.
input_fn(s, m0) ==
    IF s.input # <<>>
    THEN Store([s EXCEPT !.input = Tail(@)], Head(s.input), m0)
    ELSE LET line == Head(s.stdin)
             rest == [s EXCEPT !.stdin = Tail(@)]
         IN  IF line.ok THEN Store(rest, line.val, m0)
             ELSE input_fn(rest, m0)

\* output putting the value in front of those already sent.
output_fn_front(s, m0) ==
    LET out == get_param(s, 1, m0)
    IN  IF out.fatal # "" THEN Abort(s, out.fatal)
        ELSE Advance([s EXCEPT !.output = <<out.val>> \o @], 2)

\* fn output
output_fn(s, m0) ==
    LET out == get_param(s, 1, m0)
    IN  IF out.fatal # "" THEN Abort(s, out.fatal)
        ELSE Advance([s EXCEPT !.output = Append(@, out.val)], 2)

\* halt stepping over its own cell.
halt_advances(s) == Advance(s, 1)

\* fn halt
halt(s) == s

execute(s, code) ==
    CASE code.name = "Add"         -> add(s, code.m[1], code.m[2], code.m[3])
      [] code.name = "Multiply"    -> multiply(s, code.m[1], code.m[2], code.m[3])
      [] code.name = "Input"       -> input_fn(s, code.m[1])
      [] code.name = "Output"      -> output_fn(s, code.m[1])
      [] code.name = "Halt"        -> halt(s)
      [] code.name = "Equals"      -> equals(s, code.m[1], code.m[2], code.m[3])
      [] code.name = "JumpIfTrue"  -> jump_if_true(s, code.m[1], code.m[2])
      [] code.name = "JumpIfFalse" -> jump_if_false(s, code.m[1], code.m[2])
      [] code.name = "LessThan"    -> less_than(s, code.m[1], code.m[2], code.m[3])
      [] code.name = "SetRelBase"  -> set_rel_base(s, code.m[1])

\* -------------------------------------------------------------------------
\* Decoder (opcode.rs).
\* -------------------------------------------------------------------------
Opcode(name, modes) == [fatal |-> "", name |-> name, m |-> modes]
NoOpcode(kind) == [fatal |-> kind, name |-> "", m |-> <<>>]

OpcodeName(tail) ==
    CASE tail = 1  -> "Add"
      [] tail = 2  -> "Multiply"
      [] tail = 3  -> "Input"
      [] tail = 4  -> "Output"
      [] tail = 5  -> "JumpIfTrue"
      [] tail = 6  -> "JumpIfFalse"
      [] tail = 7  -> "LessThan"
      [] tail = 8  -> "Equals"
      [] tail = 9  -> "SetRelBase"
      [] tail = 99 -> "Halt"
      [] OTHER     -> ""

Arity(name) ==
    CASE name \in {"Add", "Multiply", "LessThan", "Equals"} -> 3
      [] name \in {"JumpIfTrue", "JumpIfFalse"}             -> 2
      [] name \in {"Input", "Output", "SetRelBase"}         -> 1
      [] OTHER                                              -> 0

ModeName(digit) ==
    CASE digit = 0 -> "Position"
      [] digit = 1 -> "Inmediate"
      [] digit = 2 -> "Relative"
      [] OTHER     -> ""

RECURSIVE Digit(_, _)
\* Decimal digit i of n, digit 1 the least significant.
Digit(n, i) == IF i = 1 THEN n % 10 ELSE Digit(n \div 10, i - 1)

from_num(raw) ==
    LET low == URem(raw, 100000)
        name == OpcodeName(low % 100)
        modes == [i \in 1..Arity(name) |-> ModeName(Digit(low, i + 2))]
    IN  IF IsNeg(raw) \/ name = "" THEN NoOpcode("unrecognized_opcode")
        ELSE IF \E i \in DOMAIN modes : modes[i] = ""
             THEN NoOpcode("unrecognized_mode")
        ELSE Opcode(name, modes)

\* -------------------------------------------------------------------------
\* The images, receivers and terminals the machine is constructed with.
\* -------------------------------------------------------------------------
Cells(ints) == [i \in 1..Len(ints) |-> I(ints[i])]

Case(image, receiver, terminal) ==
    [data |-> image, input |-> receiver, stdin |-> terminal, budget |-> MaxShort]

Scenario(image) ==
    [data |-> image, input |-> <<>>, stdin |-> <<>>, budget |-> MaxSteps]

Lits == -1..MaxLit

\* The end-to-end scenarios.
Scenario1 == Cells(<<1, 9, 10, 3, 2, 3, 11, 0, 99, 30, 40, 50>>)
Echo      == Cells(<<3, 0, 4, 0, 99>>)
BigMul    == Cells(<<1102, 34915192, 34915192, 7, 4, 7, 99, 0>>)
TwoTo50   == Dec(<<1125899, 906842624>>)
BigSquare == Dec(<<1219070, 632396864>>)
BigLit    == <<I(104), TwoTo50, I(99)>>
Quine     == Cells(<<109, 1, 204, -1, 1001, 100, 1, 100, 1008, 100, 16, 101,
                     1006, 101, 0, 99>>)
HaltOnly  == Cells(<<99>>)

Scenarios == {Scenario(d) : d \in {Scenario1, BigMul, BigLit, Quine, HaltOnly}}

I64Max == [i \in 1..Bytes |-> IF i = Bytes THEN Radix \div 2 - 1 ELSE Radix - 1]
I64Min == [i \in 1..Bytes |-> IF i = Bytes THEN Radix \div 2 ELSE 0]

\* -x of a decimal literal.
Neg(x) == AddBytes(Complement(x), I(1), 0)

\* Echo with receivers of one and two values and with the terminal.
EchoValues == {I(v) : v \in Lits} \cup {I(5), I64Max, I64Min}

Terminals == {<<>>, <<Line(I(5))>>, <<BadLine, Line(I(6))>>, <<BadLine>>}

EchoCases ==
    {Case(Echo, <<v>>, <<>>) : v \in EchoValues}
        \cup {Case(Echo, <<v, I(7)>>, <<>>) : v \in EchoValues}
        \cup {Case(Echo, <<>>, t) : t \in Terminals}

\* Two Add/Multiply instructions in Position mode over three data cells,
\* ended by Halt.  The second instruction may read what the first wrote,
\* and both may write over cells of instructions already executed.
ArithImages ==
    {Cells(<<o1, a1, b1, c1, o2, a2, b2, c2, 99>> \o d) :
        o1 \in {1, 2}, a1 \in {9, 10}, b1 \in {10}, c1 \in {0, 3, 11},
        o2 \in {1, 2}, a2 \in {3, 11}, b2 \in {9, 11}, c2 \in {0, 11},
        d \in {<<30, 40, 50>>, <<-3, 4, 0>>}}

ArithCases == {Case(d, <<>>, <<>>) : d \in ArithImages}

\* Sums and products of operands near the ends of the i64 range, with the
\* exact result where it fits in an i64.
WideFacts == {
    [raw |-> 1102, a |-> Dec(<<34915192>>), b |-> Dec(<<34915192>>),
     fits |-> TRUE, exact |-> Dec(<<1219070, 632396864>>)],
    [raw |-> 1102, a |-> Dec(<<3, 37000499>>), b |-> Dec(<<3, 37000499>>),
     fits |-> TRUE, exact |-> Dec(<<9, 223372030, 926249001>>)],
    [raw |-> 1102, a |-> Dec(<<4, 294967296>>), b |-> Dec(<<1, 73741824>>),
     fits |-> TRUE, exact |-> Dec(<<4, 611686018, 427387904>>)],
    [raw |-> 1102, a |-> Neg(Dec(<<2, 147483648>>)), b |-> Dec(<<4, 294967296>>),
     fits |-> TRUE, exact |-> Neg(Dec(<<9, 223372036, 854775808>>))],
    [raw |-> 1102, a |-> Neg(Dec(<<3, 37000499>>)), b |-> Dec(<<3, 37000499>>),
     fits |-> TRUE, exact |-> Neg(Dec(<<9, 223372030, 926249001>>))],
    [raw |-> 1102, a |-> Dec(<<9, 223372036, 854775807>>), b |-> Dec(<<1>>),
     fits |-> TRUE, exact |-> Dec(<<9, 223372036, 854775807>>)],
    [raw |-> 1102, a |-> Neg(Dec(<<9, 223372036, 854775808>>)), b |-> Dec(<<1>>),
     fits |-> TRUE, exact |-> Neg(Dec(<<9, 223372036, 854775808>>))],
    [raw |-> 1102, a |-> Dec(<<9, 223372036, 854775807>>), b |-> Neg(Dec(<<1>>)),
     fits |-> TRUE, exact |-> Neg(Dec(<<9, 223372036, 854775807>>))],
    [raw |-> 1102, a |-> Dec(<<3, 37000500>>), b |-> Dec(<<3, 37000500>>),
     fits |-> FALSE, exact |-> Zero],
    [raw |-> 1102, a |-> Neg(Dec(<<9, 223372036, 854775808>>)), b |-> Neg(Dec(<<1>>)),
     fits |-> FALSE, exact |-> Zero],
    [raw |-> 1102, a |-> Dec(<<4, 294967296>>), b |-> Dec(<<4, 294967296>>),
     fits |-> FALSE, exact |-> Zero],
    [raw |-> 1101, a |-> Dec(<<9, 223372036, 854775807>>), b |-> Dec(<<0>>),
     fits |-> TRUE, exact |-> Dec(<<9, 223372036, 854775807>>)],
    [raw |-> 1101, a |-> Dec(<<9, 223372036, 854775807>>), b |-> Neg(Dec(<<1>>)),
     fits |-> TRUE, exact |-> Dec(<<9, 223372036, 854775806>>)],
    [raw |-> 1101, a |-> Neg(Dec(<<9, 223372036, 854775808>>)), b |-> Dec(<<9, 223372036, 854775807>>),
     fits |-> TRUE, exact |-> Neg(Dec(<<1>>))],
    [raw |-> 1101, a |-> Dec(<<4, 611686018, 427387904>>), b |-> Dec(<<4, 611686018, 427387903>>),
     fits |-> TRUE, exact |-> Dec(<<9, 223372036, 854775807>>)],
    [raw |-> 1101, a |-> Neg(Dec(<<9, 223372036, 854775808>>)), b |-> Dec(<<1>>),
     fits |-> TRUE, exact |-> Neg(Dec(<<9, 223372036, 854775807>>))],
    [raw |-> 1101, a |-> Dec(<<9, 223372036, 854775807>>), b |-> Dec(<<1>>),
     fits |-> FALSE, exact |-> Zero],
    [raw |-> 1101, a |-> Neg(Dec(<<9, 223372036, 854775808>>)), b |-> Neg(Dec(<<1>>)),
     fits |-> FALSE, exact |-> Zero],
    [raw |-> 1101, a |-> Dec(<<4, 611686018, 427387904>>), b |-> Dec(<<4, 611686018, 427387904>>),
     fits |-> FALSE, exact |-> Zero]}

WideImage(f) == <<I(f.raw), f.a, f.b, I(7), I(4), I(7), I(99), I(0)>>

WideCases == {Case(WideImage(f), <<>>, <<>>) : f \in WideFacts}

\* One instruction of every kind and every combination of modes, after a
\* SetRelBase that makes the relative base r, with literals from Lits.
Raw(tail, d1, d2, d3) == tail + 100 * d1 + 1000 * d2 + 10000 * d3

BadRaws == {0, 10, 98, 100, -1}

Raws(arity) ==
    CASE arity = 3 -> {Raw(t, d1, d2, d3) :
                          t \in {1, 2, 7, 8}, d1 \in 0..2, d2 \in 0..2, d3 \in 0..2}
      [] arity = 2 -> {Raw(t, d1, d2, 0) : t \in {5, 6}, d1 \in 0..2, d2 \in 0..2}
      [] arity = 1 -> {Raw(t, d1, 0, 0) : t \in {3, 4, 9}, d1 \in 0..2}
      [] arity = 0 -> {99} \cup BadRaws

\* The literals of an instruction: every choice for one and two parameters;
\* for three, every choice of the first operand and of the write target.
Params(arity) ==
    IF arity < 3 THEN [1..arity -> Lits]
    ELSE {<<a, b, c>> : a \in Lits, b \in {1}, c \in Lits}

OneInstrImages ==
    UNION {{Cells(<<109, r, raw>> \o params \o <<99>>) :
               r \in Lits, raw \in Raws(arity), params \in Params(arity)} :
           arity \in 0..3}

\* The receiver and the terminal matter to images that hold an Input.
HasInput(image) == \E i \in 1..Len(image) : from_num(image[i]).name = "Input"

OneInstrCases ==
    {Case(d, <<>>, <<>>) : d \in OneInstrImages}
        \cup {Case(d, <<I(5)>>, <<>>) : d \in {x \in OneInstrImages : HasInput(x)}}
        \cup {Case(d, <<>>, <<BadLine, Line(I(6))>>) :
                 d \in {x \in OneInstrImages : HasInput(x)}}

\* A jump to its own address, and images that do not end in Halt.
SelfJumpTrue  == Cells(<<1105, 1, 0>>)
SelfJumpFalse == Cells(<<1106, 0, 0>>)
RunOff        == Cells(<<104, 5>>)
RunOffWrite   == Cells(<<1101, 1, 1, 0>>)
\* Two Input instructions, run with one value in the receiver and a
\* terminal whose first two lines do not parse.
TwoInputs     == Cells(<<3, 5, 3, 6, 99, 0, 0>>)
TwoInputsCase ==
    Case(TwoInputs, <<I(5)>>, <<BadLine, BadLine, Line(I(6)), Line(I(7))>>)
\* Stores a Halt beyond the image and jumps to it.
AuxCode       == Cells(<<1101, 99, 0, 7, 1105, 1, 7>>)
\* Sends its own first cell, addressed relative to the base 0.
SelfRead      == Cells(<<204, 0, 99>>)
\* Stores the instruction 11101 at the last address and jumps to it.
WrapAround    == Cells(<<1101, 11101, 0, -1, 1105, 1, -1>>)

OtherCases ==
    {Case(d, <<>>, <<>>) : d \in {SelfJumpTrue, SelfJumpFalse, RunOff, RunOffWrite, SelfRead, AuxCode,
                                   WrapAround}}
        \cup {TwoInputsCase}

Cases ==
    Scenarios \cup EchoCases \cup ArithCases \cup WideCases
        \cup OneInstrCases \cup OtherCases

\* -------------------------------------------------------------------------
\* new() and run().
\* -------------------------------------------------------------------------
NotYet == [fatal |-> "", name |-> "none", m |-> <<>>]

\* Program::new, for some image, receiver, terminal and build.
Init ==
    \E c \in Cases, checks \in BOOLEAN :
        /\ mem = c.data
        /\ aux_mem = [q \in {} |-> Zero]
        /\ pointer = I(0)
        /\ input = c.input
        /\ output = <<>>
        /\ rel_base = I(0)
        /\ stdin = c.stdin
        /\ overflow_checks = checks
        /\ status = "running"
        /\ fatal = ""
        /\ op = NotYet
        /\ steps = 0
        /\ budget = c.budget
        /\ data = c.data
        /\ given = c.input
        /\ written = [q \in {} |-> Zero]
        /\ keys = <<>>

\* run() is in its loop.
Running == status = "running" /\ steps < budget

\* The fetch of run_debug_mode: from_num(self.mem[self.pointer]).
Fetched_indexed ==
    IF InMem(Self, pointer) THEN from_num(mem[ToNat(pointer) + 1])
    ELSE NoOpcode("index_out_of_bounds")

\* The opcode run() decodes next: from_num(self.read(self.pointer)).
Fetched == from_num(read(Self, pointer))

\* The machine after one iteration: r is what execute() left; the loop ends
\* when the pointer did not move.
Commit(r, code) ==
    /\ mem' = r.mem
    /\ aux_mem' = r.aux_mem
    /\ pointer' = r.pointer
    /\ input' = r.input
    /\ output' = r.output
    /\ rel_base' = r.rel_base
    /\ stdin' = r.stdin
    /\ fatal' = r.fatal
    /\ status' = IF r.fatal # "" THEN "panic"
                 ELSE IF r.pointer = pointer THEN "halted"
                 ELSE "running"
    /\ op' = code
    /\ steps' = steps + 1
    /\ written' = r.wrote
    /\ UNCHANGED <<overflow_checks, budget, data, given, keys>>

\* run() is in its loop and the opcode it decodes is `name`.
Fetches(name) == Running /\ Fetched.fatal = "" /\ Fetched.name = name

\* One iteration of run() per opcode: execute() dispatches to the handler.
Add ==
    /\ Fetches("Add")
    /\ Commit(execute(Self, Fetched), Fetched)

Multiply ==
    /\ Fetches("Multiply")
    /\ Commit(execute(Self, Fetched), Fetched)

\* input() returns once the receiver or the terminal has delivered a value.
Input ==
    /\ Fetches("Input")
    /\ InputReady(Self)
    /\ Commit(execute(Self, Fetched), Fetched)

Output ==
    /\ Fetches("Output")
    /\ Commit(execute(Self, Fetched), Fetched)

Halt ==
    /\ Fetches("Halt")
    /\ Commit(execute(Self, Fetched), Fetched)

Equals ==
    /\ Fetches("Equals")
    /\ Commit(execute(Self, Fetched), Fetched)

JumpIfTrue ==
    /\ Fetches("JumpIfTrue")
    /\ Commit(execute(Self, Fetched), Fetched)

JumpIfFalse ==
    /\ Fetches("JumpIfFalse")
    /\ Commit(execute(Self, Fetched), Fetched)

LessThan ==
    /\ Fetches("LessThan")
    /\ Commit(execute(Self, Fetched), Fetched)

SetRelBase ==
    /\ Fetches("SetRelBase")
    /\ Commit(execute(Self, Fetched), Fetched)

\* from_num panics: nothing of the iteration has happened.
Undecodable ==
    /\ Running
    /\ Fetched.fatal # ""
    /\ Commit(Abort(Self, Fetched.fatal), op)

Next ==
    \/ Add
    \/ Multiply
    \/ Input
    \/ Output
    \/ Halt
    \/ Equals
    \/ JumpIfTrue
    \/ JumpIfFalse
    \/ LessThan
    \/ SetRelBase
    \/ Undecodable

Spec == Init /\ [][Next]_vars

\* -------------------------------------------------------------------------
\* run_debug_mode and debug.
\* -------------------------------------------------------------------------
MaxDebug == 12

\* A line typed at the terminal: its first character (key), for "m x y" the
\* two numbers (range), and what it is to input(): the i64 it parses to or a
\* line that does not parse.
Key(k) == [ok |-> FALSE, val |-> Zero, key |-> k, range |-> <<>>]
KeyM(x, y) == [ok |-> FALSE, val |-> Zero, key |-> "m", range |-> <<x, y>>]
KeyDigit(n) == [ok |-> TRUE, val |-> I(n), key |-> "digit", range |-> <<>>]

\* The commands debug() knows besides 'c'.
Inspections == {"m", "p", "i", "o", "b"}

TypedLines ==
    {Key(k) : k \in {"c", "p", "i", "o", "b", "m", "x"}}
        \cup {KeyM(0, 1), KeyM(0, 99), KeyDigit(5)}

AllC == [i \in 1..MaxDebug |-> Key("c")]

\* What the user types before the terminal ends: nothing, one line, or up to
\* two lines and then 'c' at every pause.
Scripts ==
    {<<>>, <<Key("x")>>, AllC} \cup {<<a>> \o AllC : a \in TypedLines}
           \cup {<<a, b>> \o AllC : a \in TypedLines, b \in TypedLines}

TwoOutputs == Cells(<<104, 5, 104, 6, 99>>)

DebugCases ==
    {Case(d, <<I(5)>>, s) :
        d \in {TwoOutputs, Echo, RunOff, AuxCode, HaltOnly, SelfJumpTrue},
        s \in Scripts}
        \cup {Case(Echo, <<>>, s) : s \in Scripts}

InitDebug ==
    \E c \in DebugCases, checks \in BOOLEAN :
        /\ mem = c.data
        /\ aux_mem = [q \in {} |-> Zero]
        /\ pointer = I(0)
        /\ input = c.input
        /\ output = <<>>
        /\ rel_base = I(0)
        /\ stdin = c.stdin
        /\ overflow_checks = checks
        /\ status = "running"
        /\ fatal = ""
        /\ op = NotYet
        /\ steps = 0
        /\ budget = c.budget
        /\ data = c.data
        /\ given = c.input
        /\ written = [q \in {} |-> Zero]
        /\ keys = <<>>

\* The opcode run_debug_mode decodes next:
\* from_num(self.mem[self.pointer]).
FetchedDebug ==
    IF InMem(Self, pointer) THEN from_num(mem[ToNat(pointer) + 1])
    ELSE NoOpcode("index_out_of_bounds")

\* The machine after one iteration of run_debug_mode, up to the call of
\* debug(): r is what execute() left; the loop ends when the pointer did not
\* move, and debug(op) pauses otherwise.
CommitDebug(r, code) ==
    /\ mem' = r.mem
    /\ aux_mem' = r.aux_mem
    /\ pointer' = r.pointer
    /\ input' = r.input
    /\ output' = r.output
    /\ rel_base' = r.rel_base
    /\ stdin' = r.stdin
    /\ fatal' = r.fatal
    /\ status' = IF r.fatal # "" THEN "panic"
                 ELSE IF r.pointer = pointer THEN "halted"
                 ELSE "paused"
    /\ op' = code
    /\ steps' = steps + 1
    /\ written' = r.wrote
    /\ UNCHANGED <<overflow_checks, budget, data, given, keys>>

DebugExecute ==
    /\ Running
    /\ FetchedDebug.fatal = ""
    /\ FetchedDebug.name = "Input" => InputReady(Self)
    /\ CommitDebug(execute(Self, FetchedDebug), FetchedDebug)

\* The fetch or from_num panics.
DebugUndecodable ==
    /\ Running
    /\ FetchedDebug.fatal # ""
    /\ status' = "panic"
    /\ fatal' = FetchedDebug.fatal
    /\ steps' = steps + 1
    /\ UNCHANGED <<mem, aux_mem, pointer, input, output, rel_base, stdin,
                   overflow_checks, op, budget, data, given, written, keys>>

\* debug() is at its prompt.
Paused == status = "paused"

\* debug() reads a line and goes on as `next`.
ReadKey(next) ==
    /\ stdin' = Tail(stdin)
    /\ keys' = Append(keys, Head(stdin).key)
    /\ status' = next
    /\ UNCHANGED <<mem, aux_mem, pointer, input, output, rel_base,
                   overflow_checks, fatal, op, steps, budget, data, given,
                   written>>

\* The terminal is at its end: read_line leaves the line empty and
\* inp.chars().next().unwrap() panics.
DebugEndOfInput ==
    /\ Paused
    /\ stdin = <<>>
    /\ status' = "panic"
    /\ fatal' = "unwrap_none"
    /\ UNCHANGED <<mem, aux_mem, pointer, input, output, rel_base, stdin,
                   overflow_checks, op, steps, budget, data, given, written,
                   keys>>

\* 'c': the condition of the while is false, debug() returns.
DebugContinue ==
    /\ Paused
    /\ stdin # <<>>
    /\ Head(stdin).key = "c"
    /\ ReadKey("running")

\* "m x y" asks for cells the primary region does not have.
SliceOutOfRange(line) ==
    /\ line.key = "m"
    /\ line.range # <<>>
    /\ line.range[2] >= Len(mem) \/ line.range[1] > line.range[2] + 1

\* m, p, i, o, b: print and prompt again.
DebugInspect ==
    /\ Paused
    /\ stdin # <<>>
    /\ Head(stdin).key \in Inspections
    /\ ~SliceOutOfRange(Head(stdin))
    /\ ReadKey("paused")

\* "m x y" indexes &self.mem[x..=y] out of range and panics.
DebugSlicePanics ==
    /\ Paused
    /\ stdin # <<>>
    /\ SliceOutOfRange(Head(stdin))
    /\ stdin' = Tail(stdin)
    /\ keys' = Append(keys, "m")
    /\ status' = "panic"
    /\ fatal' = "slice_out_of_range"
    /\ UNCHANGED <<mem, aux_mem, pointer, input, output, rel_base,
                   overflow_checks, op, steps, budget, data, given, written>>

\* Any other character: `break` leaves the while of debug(), debug() returns.
DebugOther ==
    /\ Paused
    /\ stdin # <<>>
    /\ Head(stdin).key \notin Inspections \cup {"c"}
    /\ ReadKey("running")

NextDebug ==
    \/ DebugExecute
    \/ DebugUndecodable
    \/ DebugEndOfInput
    \/ DebugContinue
    \/ DebugInspect
    \/ DebugSlicePanics
    \/ DebugOther

SpecDebug == InitDebug /\ [][NextDebug]_vars

\* -------------------------------------------------------------------------
\* Properties.
\* -------------------------------------------------------------------------
\* The integer of a cell of small magnitude.
ToInt(x) == IF IsNeg(x) THEN -(ToNat(Complement(x)) + 1) ELSE ToNat(x)

Ints(cells) == [i \in 1..Len(cells) |-> ToInt(cells[i])]

RECURSIVE DirectEval(_, _, _)
\* Direct evaluation of instructions k+1.. of an Add/Multiply image: the
\* operations are those of the image as loaded (ops), the addresses and the
\* operands are the integers in `cells` when the instruction is reached.
DirectEval(cells, ops, k) ==
    IF k = Len(ops) THEN cells
    ELSE LET a == cells[4 * k + 2]
             b == cells[4 * k + 3]
             c == cells[4 * k + 4]
             v == IF ops[k + 1] = 1 THEN cells[a + 1] + cells[b + 1]
                  ELSE cells[a + 1] * cells[b + 1]
         IN  DirectEval([cells EXCEPT ![c + 1] = v], ops, k + 1)

Halted == status = "halted"

\* C1: a program of Add and Multiply instructions in Position mode, ended by
\* Halt, runs to Halt without a fatal condition, one iteration per
\* instruction, and leaves memory equal to the direct evaluation of its
\* instructions in order; the first scenario leaves 3500 at address 0.
C1_ArithmeticMatchesDirectEvaluation ==
    data \in ArithImages =>
        /\ status # "panic"
        /\ Halted <=> steps = 3
        /\ Halted =>
              /\ op.name = "Halt"
              /\ mem = Cells(DirectEval(Ints(data), <<ToInt(data[1]), ToInt(data[5])>>, 0))
              /\ aux_mem = [q \in {} |-> Zero]
              /\ output = <<>>
        /\ (Halted /\ data = Scenario1) => mem[1] = I(3500)

C1_Witness == Halted /\ data = Scenario1 /\ steps = 3 /\ mem # data

IsPrefix(a, b) == Len(a) <= Len(b) /\ a = SubSeq(b, 1, Len(a))

\* C2: the quine runs to Halt without a fatal condition and the values given
\* to the sender are, at every moment, the first cells of the image in
\* order, and at Halt exactly its sixteen cells.
C2_QuineOutputsItself ==
    data = Quine =>
        /\ status # "panic"
        /\ IsPrefix(output, data)
        /\ steps < MaxSteps
        /\ Halted => (op.name = "Halt" /\ output = data /\ Len(output) = 16)

C2_Witness == data = Quine /\ Halted /\ output = Quine

NoCells == [q \in {} |-> Zero]

\* Addresses below, at and beyond mem.len(), and the usize of -1.
ProbeAddrs ==
    {I(0), I(Len(mem) - 1), I(Len(mem)), I(100), I(-1)}

ProbeValues == {I(7), I64Min}

\* What the history says address p holds.
Expected(p) ==
    IF p \in DOMAIN written THEN written[p]
    ELSE IF InMem(Self, p) THEN data[ToNat(p) + 1]
    ELSE Zero

\* C3: in every reachable state, in both regions: read(p) is the value last
\* written to p, the cell of the image when p was never written and lies
\* below the image's length, and 0 when it was never written and lies at or
\* beyond it; and a write(p, v) is read back as v and changes the value read
\* at no other address.
C3_MemoryRoundTrip ==
    /\ \A p \in ProbeAddrs \cup DOMAIN written : read(Self, p) = Expected(p)
    /\ \A p \in ProbeAddrs, v \in ProbeValues :
          LET after == write(Self, p, v)
          IN  /\ read(after, p) = v
              /\ \A q \in (ProbeAddrs \cup DOMAIN written) \ {p} :
                    read(after, q) = read(Self, q)

C3_Witness ==
    /\ data = Quine
    /\ Halted
    /\ I(100) \in DOMAIN written
    /\ read(Self, I(100)) = I(16)
    /\ read(Self, I(102)) = Zero

\* The opcode with every Relative mode replaced by Position.
AsPosition(code) ==
    Opcode(code.name,
           [i \in DOMAIN code.m |-> IF code.m[i] = "Relative" THEN "Position"
                                    ELSE code.m[i]])

HasRelative(code) == \E i \in DOMAIN code.m : code.m[i] = "Relative"

\* The handler of the fetched instruction can be entered (input() has a
\* value to take).
CanExecute == Fetched.name = "Input" => InputReady(Self)

\* C4 (amended): while the relative base is 0, executing an instruction
\* with Relative parameters (read operands and write targets alike) leaves
\* the machine (memory, pointer, relative base, receiver, sender, fatal
\* condition) exactly as executing that instruction with those parameters in
\* Position mode does from the same state.
C4_RelativeAtBaseZeroIsPosition ==
    (Running /\ rel_base = Zero /\ Fetched.fatal = "" /\ HasRelative(Fetched)
        /\ CanExecute)
        => execute(Self, Fetched) = execute(Self, AsPosition(Fetched))

C4_Witness ==
    /\ rel_base = Zero
    /\ status = "running"
    /\ op.name = "Add"
    /\ op.m = <<"Relative", "Relative", "Relative">>
    /\ DOMAIN written # {}

\* An instruction cell with every mode digit 2 replaced by 0.
PositionRaw(n) ==
    n - 200 * (IF (n \div 100) % 10 = 2 THEN 1 ELSE 0)
      - 2000 * (IF (n \div 1000) % 10 = 2 THEN 1 ELSE 0)
      - 20000 * (IF (n \div 10000) % 10 = 2 THEN 1 ELSE 0)

\* The machine with the instruction at the pointer rewritten in Position
\* mode: the same program with those parameters in Position mode.
PositionTwin ==
    [Self EXCEPT !.mem[ToNat(pointer) + 1] = I(PositionRaw(ToInt(@)))]

\* C4 as stated: while the relative base is 0, the program and the same
\* program with its Relative parameters in Position mode go through the
\* same memory (the rewritten instruction cell apart), pointer, relative
\* base, receiver and sender states: from states that agree, the next
\* instruction leaves them in states that agree.
C4_AsStated ==
    (Running /\ rel_base = Zero /\ Fetched.fatal = "" /\ HasRelative(Fetched)
        /\ CanExecute /\ InMem(Self, pointer)
        /\ ULt(read(Self, pointer), I(100000)))
        => LET a == execute(Self, Fetched)
               b == execute(PositionTwin,
                            from_num(read(PositionTwin, pointer)))
           IN  /\ a.fatal = b.fatal
               /\ a.pointer = b.pointer
               /\ a.rel_base = b.rel_base
               /\ a.input = b.input
               /\ a.output = b.output
               /\ a.aux_mem = b.aux_mem
               /\ \A i \in 1..Len(mem) :
                     i # ToNat(pointer) + 1 => a.mem[i] = b.mem[i]

\* C5: the echo program with a receiver that holds a value v, for every v
\* tried (0, 1, -1, 5, the least and the greatest i64): Input takes exactly
\* that one value from the receiver, writes it to address 0 and advances
\* the pointer by 2; Output then sends v; the run halts with output <<v>>,
\* never blocks and never touches the terminal.
C5_EchoSendsWhatItReceives ==
    (data = Echo /\ given # <<>>) =>
        /\ status # "panic"
        /\ stdin = <<>>
        /\ status = "running" => (CanExecute /\ steps < budget)
        /\ steps = 0 => input = given
        /\ steps >= 1 => input = Tail(given)
        /\ steps = 1 =>
              /\ op.name = "Input"
              /\ mem = [data EXCEPT ![1] = given[1]]
              /\ pointer = I(2)
              /\ output = <<>>
        /\ steps = 2 =>
              (op.name = "Output" /\ output = <<given[1]>> /\ pointer = I(4))
        /\ Halted <=> steps = 3
        /\ Halted => (op.name = "Halt" /\ output = <<given[1]>>)

C5_Witness == data = Echo /\ given = <<I64Min>> /\ Halted /\ output = <<I64Min>>

\* C6: where the exact sum or product of the two operands fits in an i64
\* (operands up to the ends of the i64 range), Add and Multiply write
\* exactly it and Output sends it unchanged, in either build; the two
\* scenarios send 1219070632396864 and 1125899906842624.
C6_ArithmeticIsSixtyFourBit ==
    /\ (Len(data) = 8 /\ data[1] \in {I(1101), I(1102)}) =>
          \A f \in WideFacts :
              (data = WideImage(f) /\ f.fits) =>
                  /\ status # "panic"
                  /\ steps >= 1 => read(Self, I(7)) = f.exact
                  /\ steps >= 2 => output = <<f.exact>>
                  /\ Halted <=> steps = 3
    /\ (data = BigMul /\ Halted) => output = <<BigSquare>>
    /\ data = BigLit =>
          /\ status # "panic"
          /\ Halted <=> steps = 2
          /\ steps >= 1 => output = <<TwoTo50>>

C6_Witness == data = BigMul /\ Halted /\ output = <<BigSquare>>

\* What run() and the handlers may change, apart from the loop's own
\* bookkeeping.
machine == <<mem, aux_mem, pointer, rel_base, input, output, stdin>>

\* The step that executes Halt leaves the machine as it was and ends run().
C7_HaltStep ==
    [][Fetches("Halt") =>
          (UNCHANGED machine /\ status' = "halted" /\ fatal' = ""
              /\ op'.name = "Halt" /\ written' = written)]_vars

\* C7: the step that executes Halt changes neither memory (both regions),
\* the pointer, the relative base, the receiver, the sender nor the
\* terminal, and run() returns right after it without a fatal condition;
\* the image [99] halts after that one fetch, at address 0, pointer 0, with
\* nothing sent.
C7_HaltChangesNothing ==
    /\ C7_HaltStep
    /\ [](op.name = "Halt" => Halted)
    /\ [](data = HaltOnly =>
            /\ steps <= 1
            /\ pointer = I(0)
            /\ output = <<>>
            /\ mem = data
            /\ aux_mem = NoCells
            /\ status # "panic"
            /\ steps = 1 <=> Halted)

C7_Witness == data = HaltOnly /\ Halted /\ steps = 1 /\ op.name = "Halt"

\* C8: whenever run() has returned, the instruction it executed last was
\* Halt.
C8_RunStopsOnlyOnHalt == Halted => op.name = "Halt"

\* -------------------------------------------------------------------------
\* Write targets.
\* -------------------------------------------------------------------------
Writers == {"Add", "Multiply", "LessThan", "Equals", "Input"}

\* run() is about to execute a writing instruction.
FetchesWriter == Running /\ Fetched.fatal = "" /\ Fetched.name \in Writers

\* The mode of the fetched instruction's write target, the address of the
\* slot that holds its literal, and the literal.
TargetMode == Fetched.m[Arity(Fetched.name)]
TargetSlot == usize_add(pointer, Arity(Fetched.name))
TargetLiteral == read(Self, TargetSlot.val)

\* Memory after the step.
After == [mem |-> mem', aux_mem |-> aux_mem']

\* The step wrote the cell p and no other.
WroteAt(p) ==
    /\ p \in DOMAIN written'
    /\ read(After, p) = written'[p]
    /\ \A q \in DOMAIN written' \ {p} :
          q \in DOMAIN written /\ written'[q] = written[q]
    /\ \A q \in {I(i - 1) : i \in 1..Len(mem)} \cup DOMAIN aux_mem
                    \cup DOMAIN aux_mem' :
          q # p => read(After, q) = read(Self, q)

\* What a step of a writing instruction does with its target; `kinds` are
\* the fatal conditions an Inmediate target may end in.
TargetRule(kinds) ==
    FetchesWriter =>
        CASE TargetMode = "Inmediate" ->
                 /\ status' = "panic"
                 /\ fatal' \in kinds
                 /\ written' = written
                 /\ UNCHANGED <<mem, aux_mem, pointer, rel_base, output>>
          [] TargetMode = "Position" ->
                 /\ fatal' # "inmediate_write"
                 /\ status' # "panic" => WroteAt(TargetLiteral)
          [] TargetMode = "Relative" ->
                 /\ fatal' # "inmediate_write"
                 /\ status' # "panic" =>
                        WroteAt(AddBytes(rel_base, TargetLiteral, 0))

\* The fatal condition of an Inmediate target: the slot's address
\* pointer + offset is computed first, and a build with overflow checks
\* panics there when it does not fit in usize.
InmediateKinds ==
    IF TargetSlot.fatal # "" THEN {TargetSlot.fatal} ELSE {"inmediate_write"}

\* What the code does with a write target: an Inmediate target ends the run
\* in a fatal condition without writing (the invalid addressing mode, or the
\* overflow of pointer + offset where that comes first), a Position target
\* writes the cell at the literal, a Relative target the cell at
\* rel_base + literal, and no step follows a fatal condition.
WriteTargetModes ==
    /\ [][TargetRule(InmediateKinds)]_vars
    /\ [][status = "running"]_vars

InmediateTargetPanics ==
    /\ status = "panic"
    /\ fatal = "inmediate_write"
    /\ op.name = "Input"
    /\ given # <<>>
    /\ input = Tail(given)

\* C9: a writing instruction (Add, Multiply, LessThan, Equals on the third
\* parameter, Input on its only one) whose write target is Inmediate ends
\* the run in the invalid-addressing-mode fatal condition, and nothing is
\* executed after it; a Position target writes at the literal, a Relative
\* target at rel_base + literal.
C9_AsStated ==
    /\ [][TargetRule({"inmediate_write"})]_vars
    /\ [][status = "running"]_vars

\* -------------------------------------------------------------------------
\* Unrecognized opcodes.
\* -------------------------------------------------------------------------
\* The two-digit tail of the cell is none of 01..09 and 99.
BadTail(raw) == IsNeg(raw) \/ URem(raw, 100) \notin (1..9) \cup {99}

\* C10: when the cell at the pointer has a two-digit tail other than 01..09
\* and 99, the iteration ends in the unrecognized-opcode fatal condition
\* with memory (both regions), the pointer, the relative base, the receiver,
\* the sender and the terminal as they were; this covers a pointer at an
\* unwritten address at or beyond the length of the image, where the cell
\* read is 0.
C10_UnrecognizedOpcodeAborts ==
    [][(Running /\ BadTail(read(Self, pointer))) =>
          /\ status' = "panic"
          /\ fatal' = "unrecognized_opcode"
          /\ written' = written
          /\ UNCHANGED machine]_vars

C10_Witness ==
    /\ data = RunOff
    /\ status = "panic"
    /\ fatal = "unrecognized_opcode"
    /\ ~InMem(Self, pointer)
    /\ pointer \notin DOMAIN aux_mem
    /\ read(Self, pointer) = Zero
    /\ output = <<I(5)>>

\* -------------------------------------------------------------------------
\* The effect of one instruction.
\* -------------------------------------------------------------------------
\* The read operand of parameter i of the fetched instruction, by the rule
\* of the modes: the literal, the cell at the literal, the cell at
\* rel_base + literal.
Literal(i) == read(Self, AddBytes(pointer, I(i), 0))

Operand(i) ==
    CASE Fetched.m[i] = "Inmediate" -> Literal(i)
      [] Fetched.m[i] = "Position"  -> read(Self, Literal(i))
      [] Fetched.m[i] = "Relative"  ->
             read(Self, AddBytes(rel_base, Literal(i), 0))

\* The address of a write target in parameter i.
Target(i) ==
    IF Fetched.m[i] = "Relative" THEN AddBytes(rel_base, Literal(i), 0)
    ELSE Literal(i)

\* x is a small integer, written as a TLC integer.
Small(x) == ToInt(x) \in -30000..30000 /\ x = I(ToInt(x))

\* The result of a binary instruction on integers.
Compute(name, a, b) ==
    CASE name = "Add"      -> a + b
      [] name = "Multiply" -> a * b
      [] name = "LessThan" -> IF a < b THEN 1 ELSE 0
      [] name = "Equals"   -> IF a = b THEN 1 ELSE 0

BinaryNames == {"Add", "Multiply", "LessThan", "Equals"}

\* The step executes the instruction to its end.
Completes == status' # "panic"

\* C11: a step of Add, Multiply, LessThan or Equals that runs to its end
\* writes, for every combination of modes of its two read operands, the sum,
\* the product, or 1/0 for < and ==, of the operands to the address its
\* third parameter resolves to, changes no other cell, advances the pointer
\* by exactly 4 (also when the cell written is one of the instruction's
\* own), and leaves the relative base, the receiver, the sender and the
\* terminal as they were.
C11_BinaryStep ==
    [][(Running /\ Fetched.fatal = "" /\ Fetched.name \in BinaryNames
            /\ Completes) =>
          /\ WroteAt(Target(3))
          /\ (Small(Operand(1)) /\ Small(Operand(2))) =>
                written'[Target(3)] =
                    I(Compute(Fetched.name, ToInt(Operand(1)),
                              ToInt(Operand(2))))
          /\ Fetched.name \in {"LessThan", "Equals"} =>
                written'[Target(3)] \in {I(0), I(1)}
          /\ pointer' = AddBytes(pointer, I(4), 0)
          /\ UNCHANGED <<rel_base, input, output, stdin>>]_vars

C11_Witness ==
    /\ data \in ArithImages
    /\ steps = 1
    /\ op.name = "Multiply"
    /\ status = "running"
    /\ I(3) \in DOMAIN written
    /\ mem[4] # data[4]
    /\ pointer = I(4)

JumpNames == {"JumpIfTrue", "JumpIfFalse"}

\* The fetched jump is taken.
Taken == (Operand(1) # Zero) <=> (Fetched.name = "JumpIfTrue")

\* C12: a step of JumpIfTrue (JumpIfFalse) that runs to its end sets the
\* pointer to the second read operand when the first read operand is
\* nonzero (zero) and otherwise advances it by exactly 3; either way both
\* memory regions, the relative base, the receiver, the sender and the
\* terminal are as they were.
C12_JumpStep ==
    [][(Running /\ Fetched.fatal = "" /\ Fetched.name \in JumpNames
            /\ Completes) =>
          /\ pointer' = IF Taken THEN Operand(2)
                        ELSE AddBytes(pointer, I(3), 0)
          /\ written' = written
          /\ UNCHANGED <<mem, aux_mem, rel_base, input, output, stdin>>]_vars

C12_Witness ==
    /\ op.name = "JumpIfFalse"
    /\ op.m = <<"Position", "Inmediate">>
    /\ steps = 2
    /\ status = "running"
    /\ pointer = I(1)

\* C13: the relative base is 0 when run() starts and changes only in a
\* step that executes SetRelBase; such a step, run to its end, adds to it
\* the read operand of its parameter, resolved by the rule of the modes
\* with the relative base of before the step, advances the pointer by 2 and
\* leaves both memory regions, the receiver, the sender and the terminal as
\* they were.
C13_RelativeBase ==
    /\ [](steps = 0 => rel_base = Zero)
    /\ [][rel_base' # rel_base =>
             (Running /\ Fetched.fatal = "" /\ Fetched.name = "SetRelBase")]_vars
    /\ [][(Running /\ Fetched.fatal = "" /\ Fetched.name = "SetRelBase"
              /\ Completes) =>
             /\ rel_base' = AddBytes(rel_base, Operand(1), 0)
             /\ (Small(rel_base) /\ Small(Operand(1))) =>
                   rel_base' = I(ToInt(rel_base) + ToInt(Operand(1)))
             /\ pointer' = AddBytes(pointer, I(2), 0)
             /\ written' = written
             /\ UNCHANGED <<mem, aux_mem, input, output, stdin>>]_vars

C13_Witness ==
    /\ op.name = "SetRelBase"
    /\ op.m = <<"Relative">>
    /\ steps = 2
    /\ status = "running"
    /\ rel_base = I(110)
    /\ pointer = I(4)

\* C14: in every reachable state mem has the length of the image given to
\* new(), aux_mem holds only addresses at or beyond that length, a value
\* written below the length is in mem and not in aux_mem, a value written at
\* or beyond it is in aux_mem, and no step removes an address from aux_mem.
C14_MemoryRegions ==
    /\ [](/\ Len(mem) = Len(data)
          /\ \A q \in DOMAIN aux_mem : ~ULt(q, I(Len(data)))
          /\ \A q \in DOMAIN written :
                IF ULt(q, I(Len(data)))
                THEN q \notin DOMAIN aux_mem /\ mem[ToNat(q) + 1] = written[q]
                ELSE q \in DOMAIN aux_mem /\ aux_mem[q] = written[q])
    /\ [][DOMAIN aux_mem \subseteq DOMAIN aux_mem']_vars

C14_Witness ==
    /\ data = Quine
    /\ Halted
    /\ Len(mem) = 16
    /\ DOMAIN aux_mem = {I(100), I(101)}

\* C15: the sequence of values given to the sender only grows by
\* appending; a step of Output that runs to its end appends exactly one
\* value, the read operand of its parameter, and advances the pointer by 2
\* with both memory regions, the relative base, the receiver and the
\* terminal as they were; a step of any other instruction sends nothing.
C15_OutputAppends ==
    /\ [][IsPrefix(output, output')]_vars
    /\ [][output' # output => Fetches("Output")]_vars
    /\ [][(Fetches("Output") /\ Completes) =>
             /\ output' = Append(output, Operand(1))
             /\ pointer' = AddBytes(pointer, I(2), 0)
             /\ written' = written
             /\ UNCHANGED <<mem, aux_mem, rel_base, input, stdin>>]_vars

C15_Witness ==
    /\ data = Quine
    /\ op.name = "Output"
    /\ output = <<I(109), I(1)>>
    /\ status = "running"

\* The first line of the terminal that parses.
FirstParsed ==
    CHOOSE k \in 1..Len(stdin) :
        stdin[k].ok /\ \A j \in 1..(k - 1) : ~stdin[j].ok

\* C16: Input takes its value from the receiver when the receiver holds
\* one, and the terminal is then not read; otherwise it takes the first
\* line of the terminal that parses, the lines before it being consumed
\* without any other effect and without a fatal condition; either way the
\* instruction makes one write, of that value to the address its parameter
\* resolves to, and advances the pointer by 2.
C16_InputStep ==
    /\ [][(Fetches("Input") /\ Completes) =>
             /\ IF input # <<>>
                THEN /\ written'[Target(1)] = Head(input)
                     /\ input' = Tail(input)
                     /\ stdin' = stdin
                ELSE /\ written'[Target(1)] = stdin[FirstParsed].val
                     /\ input' = input
                     /\ stdin' = SubSeq(stdin, FirstParsed + 1, Len(stdin))
             /\ WroteAt(Target(1))
             /\ pointer' = AddBytes(pointer, I(2), 0)
             /\ UNCHANGED <<rel_base, output>>]_vars
    /\ [][(Fetches("Input") /\ ~Completes) =>
             fatal' \in {"inmediate_write", "overflow"}]_vars

C16_Witness ==
    /\ data = TwoInputs
    /\ steps = 2
    /\ op.name = "Input"
    /\ status = "running"
    /\ mem[6] = I(5)
    /\ mem[7] = I(6)
    /\ input = <<>>
    /\ stdin = <<Line(I(7))>>

\* C17: every address given to write() and every value of the pointer is
\* the non-negative integer it was computed from: none is the usize that a
\* negative literal, a negative rel_base + literal or a negative jump target
\* wraps to (an address of 2^63 or more).
C17_AddressesNonNegative ==
    /\ ~IsNeg(pointer)
    /\ \A q \in DOMAIN written : ~IsNeg(q)

\* -------------------------------------------------------------------------
\* The debugger.
\* -------------------------------------------------------------------------
\* The user has answered 'c' at every pause so far.
OnlyContinued == \A i \in 1..Len(keys) : keys[i] = "c"

\* C18: with 'c' answered at every pause, run_debug_mode fetches at every
\* iteration the instruction run() fetches in the same state, or fails with
\* the same fatal condition, also when the pointer is at or beyond the
\* length of the image.
C18_DebugFetchesAsRun ==
    (Running /\ OnlyContinued) => FetchedDebug = Fetched

\* The user has typed a character that is no command of debug().
TypedOther == \E i \in 1..Len(keys) : keys[i] \notin Inspections \cup {"c"}

\* debug() is at its prompt and the terminal has a line whose first character
\* is one of `ks`.
Types(ks) == Paused /\ stdin # <<>> /\ Head(stdin).key \in ks

\* C19: at a pause, m, p, i, o and b leave memory, pointer, relative base,
\* receiver and sender as they were and prompt again; 'c' resumes execution;
\* and after any other character no instruction of the run is followed by a
\* pause.
C19_DebuggerCommands ==
    /\ [][Types(Inspections) =>
             (status' = "paused"
                 /\ UNCHANGED <<mem, aux_mem, pointer, rel_base, input,
                                output>>)]_vars
    /\ [][Types({"c"}) =>
             (status' = "running"
                 /\ UNCHANGED <<mem, aux_mem, pointer, rel_base, input,
                                output>>)]_vars
    /\ [](TypedOther => ~Paused)

\* C20: a step that aborts with the invalid addressing mode of a write
\* target leaves the state as it was before the step: no cell written, the
\* pointer and the relative base unchanged, nothing sent to the sender and
\* nothing taken from the receiver, also when the instruction is an Input
\* whose parameter is Inmediate.
C20_AbortIsAtomic ==
    [][fatal' = "inmediate_write" =>
          (written' = written
              /\ UNCHANGED <<mem, aux_mem, pointer, rel_base, output,
                             input>>)]_vars

====
